---- MODULE Spec2Model ----
(***************************************************************************)
(* A model of src/render2/pipeline.rs of bevy_ecs_tilemap: the extraction  *)
(* of tile chunks into the render world, the queue stage that builds the   *)
(* bind groups and the per-view transparent phase, and the DrawTilemap     *)
(* render command sequence, together with the TilemapPipelineKey bit       *)
(* encoding of the MSAA sample count.                                      *)
(***************************************************************************)
EXTENDS Integers, Sequences, FiniteSets, TLC

\* Option<T>: Some(v) or Nothing.
Some(v) == [some |-> TRUE, v |-> v]

Nothing == [some |-> FALSE]

(***************************************************************************)
(* 32-bit unsigned integers.  A u32 is its two 16-bit halves, so that the  *)
(* shifts, the mask and the wrap-around of the arithmetic are those of the *)
(* machine word and not those of the unbounded integers.                   *)
(***************************************************************************)
HALF_BITS == 16

HALF == 65536

\* The u32 of a natural number below 2^31.
ToU32(n) == [hi |-> n \div HALF, lo |-> n % HALF]

\* The natural number of a u32 below 2^15 * 2^16.
ToNat(a) == (a.hi * HALF) + a.lo

U32_MAX == [hi |-> HALF - 1, lo |-> HALF - 1]

RECURSIVE Pow2(_)
Pow2(k) == IF k = 0 THEN 1 ELSE 2 * Pow2(k - 1)

\* The bitwise operations on one half, bit by bit.
RECURSIVE And16(_, _)
And16(x, y) ==
    IF x = 0 \/ y = 0 THEN 0
    ELSE ((x % 2) * (y % 2)) + (2 * And16(x \div 2, y \div 2))

BitAnd(a, b) == [hi |-> And16(a.hi, b.hi), lo |-> And16(a.lo, b.lo)]

BitNot(a) == [hi |-> HALF - 1 - a.hi, lo |-> HALF - 1 - a.lo]

\* a << s and a >> s for 0 <= s < 32: the bits shifted out are lost.
Shl(a, s) ==
    IF s >= HALF_BITS
    THEN [hi |-> (a.lo * Pow2(s - HALF_BITS)) % HALF, lo |-> 0]
    ELSE [hi |-> (((a.hi * Pow2(s)) % HALF) + ((a.lo * Pow2(s)) \div HALF)) % HALF,
          lo |-> (a.lo * Pow2(s)) % HALF]

Shr(a, s) ==
    IF s >= HALF_BITS
    THEN [hi |-> 0, lo |-> a.hi \div Pow2(s - HALF_BITS)]
    ELSE [hi |-> a.hi \div Pow2(s),
          lo |-> (a.lo \div Pow2(s)) + ((a.hi % Pow2(s)) * Pow2(HALF_BITS - s))]

\* a - 1 and a + 1 modulo 2^32.
WrappingDec(a) ==
    IF a.lo > 0 THEN [a EXCEPT !.lo = @ - 1]
    ELSE IF a.hi > 0 THEN [hi |-> a.hi - 1, lo |-> HALF - 1]
    ELSE U32_MAX

WrappingInc(a) ==
    IF a.lo < HALF - 1 THEN [a EXCEPT !.lo = @ + 1]
    ELSE IF a.hi < HALF - 1 THEN [hi |-> a.hi + 1, lo |-> 0]
    ELSE [hi |-> 0, lo |-> 0]

IsZero(a) == a.hi = 0 /\ a.lo = 0

(***************************************************************************)
(* TilemapPipelineKey                                                      *)
(***************************************************************************)
MSAA_MASK_BITS == 63

MSAA_SHIFT_BITS == 26

NONE == ToU32(0)

MSAA_RESERVED_BITS == Shl(ToU32(MSAA_MASK_BITS), MSAA_SHIFT_BITS)

\* bitflags' from_bits: Some(key) when no bit outside the declared flags is set.
from_bits(bits) ==
    IF IsZero(BitAnd(bits, BitNot(MSAA_RESERVED_BITS))) THEN Some(bits) ELSE Nothing

\* The outcome of a call: a value, or a panic (an unwrap of None, an
\* arithmetic overflow under overflow checks, an explicit panic!).
Ok(v) == [ok |-> TRUE, val |-> v]

Panic(why) == [ok |-> FALSE, why |-> why]

\* `msaa_samples - 1`: with overflow checks (a debug build) the subtraction
\* panics on 0, without them (a release build) it wraps.
SubOne(a, checks) ==
    IF IsZero(a) /\ checks THEN Panic("attempt to subtract with overflow")
    ELSE Ok(WrappingDec(a))

\* An encoding that stores the sample count itself, not the count less one.
from_msaa_samples_unbiased(samples, checks) ==
    LET msaa_bits == Shl(BitAnd(samples, ToU32(MSAA_MASK_BITS)), MSAA_SHIFT_BITS)
        key == from_bits(msaa_bits)
    IN  IF key.some THEN Ok(key.v) ELSE Panic("from_bits(msaa_bits).unwrap()")

from_msaa_samples(samples, checks) ==
    LET dec == SubOne(samples, checks) IN
    IF ~dec.ok THEN dec
    ELSE LET msaa_bits == Shl(BitAnd(dec.val, ToU32(MSAA_MASK_BITS)), MSAA_SHIFT_BITS)
             key == from_bits(msaa_bits)
         IN  IF key.some THEN Ok(key.v) ELSE Panic("from_bits(msaa_bits).unwrap()")

msaa_samples(bits) ==
    WrappingInc(BitAnd(Shr(bits, MSAA_SHIFT_BITS), ToU32(MSAA_MASK_BITS)))

(***************************************************************************)
(* TilemapPipeline: the four bind group layouts made by from_world, and    *)
(* the pipeline descriptor specialize makes for a key.                     *)
(***************************************************************************)
UniformBufferEntry(visibility, size) ==
    [binding |-> 0, visibility |-> visibility,
     ty |-> [buffer |-> "Uniform", has_dynamic_offset |-> TRUE,
             min_binding_size |-> size]]

from_world ==
    [view_layout |->
        [label |-> "tilemap_view_layout",
         entries |-> <<UniformBufferEntry({"VERTEX", "FRAGMENT"}, 144)>>],
     mesh_layout |->
        [label |-> "tilemap_mesh_layout",
         entries |-> <<UniformBufferEntry({"VERTEX", "FRAGMENT"}, 64)>>],
     uniform_layout |->
        [label |-> "tilemap_material_layout",
         entries |-> <<UniformBufferEntry({"VERTEX"}, 56)>>],
     material_layout |->
        [label |-> "tilemap_material_layout",
         entries |->
            <<[binding |-> 0, visibility |-> {"FRAGMENT"},
               ty |-> [texture |-> "Float", multisampled |-> FALSE,
                       view_dimension |-> "D2"]],
              [binding |-> 1, visibility |-> {"FRAGMENT"},
               ty |-> [sampler |-> "filtering", comparison |-> FALSE]]>>]]

\* The TilemapPipeline resource.
tilemap_pipeline == from_world

\* The RenderPipelineDescriptor of specialize, for a multisample count.
RenderPipelineDescriptor(self, count) ==
    [label |-> "tilemap_pipeline",
     vertex |-> [shader |-> "TILEMAP_SHADER_HANDLE", entry_point |-> "vertex",
                 array_stride |-> 44,
                 attributes |-> <<[format |-> "Float32x3", offset |-> 16,
                                   shader_location |-> 0],
                                  [format |-> "Sint32x4", offset |-> 28,
                                   shader_location |-> 1],
                                  [format |-> "Float32x4", offset |-> 0,
                                   shader_location |-> 2]>>],
     fragment |-> [shader |-> "TILEMAP_SHADER_HANDLE", entry_point |-> "fragment",
                   blend |-> [color |-> <<"SrcAlpha", "OneMinusSrcAlpha", "Add">>,
                              alpha |-> <<"One", "One", "Add">>]],
     layout |-> <<self.view_layout, self.mesh_layout, self.uniform_layout,
                  self.material_layout>>,
     primitive |-> [front_face |-> "Ccw", cull_mode |-> "Back",
                    topology |-> "TriangleList"],
     depth_stencil |-> Nothing,
     multisample |-> [count |-> count, mask |-> U32_MAX,
                      alpha_to_coverage_enabled |-> FALSE]]

\* A specialize that lists the tilemap-uniform layout before the mesh layout.
specialize_uniform_first(self, k) ==
    [RenderPipelineDescriptor(self, 1) EXCEPT
        !.layout = <<self.view_layout, self.uniform_layout, self.mesh_layout,
                     self.material_layout>>]

\* A specialize that takes the multisample count from the key.
specialize_for_samples(self, k) ==
    RenderPipelineDescriptor(self, ToNat(msaa_samples(k)))

\* SpecializedPipeline::specialize: the key is not read (`count: 1,
\* //key.msaa_samples()`).
specialize(self, k) == RenderPipelineDescriptor(self, 1)

(***************************************************************************)
(* The universe of the model: the tile-chunk entities, the views, the      *)
(* image handles, the layer ids, and the number of frames rendered.        *)
(***************************************************************************)
NumViews == 2

MaxFrames == 2

MaxSampleInput == 130

MaxSpecializeCalls == 2

\* The tile-chunk entities the simulation spawns and despawns.
Entities == {1, 2}

Views == 1 .. NumViews

Images == {"imgA", "imgB"}

LayerIds == {1, 65535}

\* Msaa.samples as the host can hold it when the queue stage runs: the host
\* creates its multisampled targets with the same count before that stage.
MsaaSettings == {1, 4}

\* The sample counts given to the key encoding on its own: the whole 6-bit
\* range, its neighbours on both sides, and the largest u32.
SampleInputs == {ToU32(n) : n \in 0 .. MaxSampleInput} \cup {U32_MAX}

(***************************************************************************)
(* The simulation world.  Each entity has, or lacks, the four components   *)
(* extract_tilemaps queries.                                               *)
(***************************************************************************)
TransformOf(e) == [translation |-> <<16 * e, 0, 0>>, scale |-> 1]

UniformDataOf(e) == [chunk_pos |-> <<e, 0>>]

MeshHandleOf(e) == [mesh |-> e]

ChunkOf(l, i) == [settings |-> [layer_id |-> l], material |-> i]

Complete(e, l, i) ==
    [transform |-> Some(TransformOf(e)), chunk |-> Some(ChunkOf(l, i)),
     tilemap_uniform |-> Some(UniformDataOf(e)), mesh |-> Some(MeshHandleOf(e))]

Despawned ==
    [transform |-> Nothing, chunk |-> Nothing, tilemap_uniform |-> Nothing,
     mesh |-> Nothing]

CompleteEntities(e) == {Complete(e, l, i) : l \in LayerIds, i \in Images}

\* An entity with one of the four components taken away.
Incomplete(e) ==
    LET c == Complete(e, 1, "imgA") IN
    {[c EXCEPT !.transform = Nothing], [c EXCEPT !.chunk = Nothing],
     [c EXCEPT !.tilemap_uniform = Nothing], [c EXCEPT !.mesh = Nothing]}

VARIABLES
    world,                \* the simulation world: entity -> its components
    render_world,         \* the render world: entity -> Option of the extracted bundle
    msaa,                 \* Msaa.samples
    views,                \* the view entities of the frame
    view_uniforms,        \* ViewUniforms.uniforms.binding(): present or not
    transform_uniforms,   \* ComponentUniforms<MeshUniform>.uniforms().binding()
    tilemap_uniforms,     \* ComponentUniforms<TilemapUniformData>.uniforms().binding()
    gpu_images,           \* RenderAssets<Image>: handle -> 0 (none) or the upload's generation
    gpu_meshes,           \* RenderAssets<Mesh>: entity's mesh -> "none", "indexed", "plain"
    image_bind_groups,    \* ImageBindGroups.values: handle -> Option<BindGroup>
    transform_bind_group, \* the TransformBindGroup resource: Option<BindGroup>
    tilemap_bind_group,   \* the TilemapUniformDataBindGroup resource
    view_bind_group,      \* view -> Option<BindGroup> (TilemapViewBindGroup)
    transparent_phase,    \* view -> the items of RenderPhase<Transparent2d>
    pipelines,            \* the pipelines queued, in order: the key and its descriptor
    created,              \* handle -> number of material bind groups ever created
    stage,                \* the stage of the frame the schedule is in
    ran,                  \* the queue-stage systems that ran this frame
    frame,                \* the frame number
    cursor,               \* draw stage: <<view, index of the next item>>
    pass,                 \* the TrackedRenderPass calls of the item drawn last
    panicked,             \* "" or the message of the panic that ended the app
    overflow_checks,      \* whether the build checks arithmetic overflow
    key_in,               \* the sample count given to from_msaa_samples
    key_stage,            \* "input", "encoded", "decoded", "panicked"
    key,                  \* the key from_msaa_samples returned
    key_out               \* the sample count msaa_samples returned

vars ==
    <<world, render_world, msaa, views, view_uniforms, transform_uniforms,
      tilemap_uniforms, gpu_images, gpu_meshes, image_bind_groups,
      transform_bind_group, tilemap_bind_group, view_bind_group,
      transparent_phase, pipelines, created, stage, ran, frame, cursor, pass,
      panicked, overflow_checks, key_in, key_stage, key, key_out>>

keyVars == <<overflow_checks, key_in, key_stage, key, key_out>>

simVars == <<world>>

hostVars ==
    <<msaa, views, view_uniforms, transform_uniforms, tilemap_uniforms,
      gpu_images, gpu_meshes>>

(***************************************************************************)
(* Helpers: the ascending sequence of a set of numbers, the conversion     *)
(* `as f32`, a stable sort by key.                                         *)
(***************************************************************************)
RECURSIVE Ascending(_)
Ascending(S) ==
    IF S = {} THEN <<>>
    ELSE LET m == CHOOSE x \in S : \A y \in S : x <= y
         IN  <<m>> \o Ascending(S \ {m})

RECURSIVE BitLen(_)
BitLen(n) == IF n = 0 THEN 0 ELSE 1 + BitLen(n \div 2)

F32_MANTISSA_BITS == 24

\* `n as f32` for an unsigned integer n, as the integer the float equals: n
\* itself when it fits the 24-bit significand, else n rounded to 24
\* significant bits, ties to even.
AsF32(n) ==
    IF BitLen(n) <= F32_MANTISSA_BITS THEN n
    ELSE LET sh == BitLen(n) - F32_MANTISSA_BITS
             q == n \div Pow2(sh)
             r == n % Pow2(sh)
             half == Pow2(sh - 1)
             up == r > half \/ (r = half /\ q % 2 = 1)
         IN  (IF up THEN q + 1 ELSE q) * Pow2(sh)

\* Insertion of item x into the sorted sequence s after every item whose
\* sort key is not greater (a stable sort keeps the order of equal keys).
RECURSIVE InsertSorted(_, _)
InsertSorted(s, x) ==
    IF s = <<>> THEN <<x>>
    ELSE IF Head(s).sort_key <= x.sort_key
         THEN <<Head(s)>> \o InsertSorted(Tail(s), x)
         ELSE <<x>> \o s

RECURSIVE SortByKey(_)
SortByKey(s) ==
    IF s = <<>> THEN <<>>
    ELSE InsertSorted(SortByKey(SubSeq(s, 1, Len(s) - 1)), s[Len(s)])

(***************************************************************************)
(* extract_tilemaps                                                        *)
(***************************************************************************)
\* GlobalTransform::compute_matrix: the columns of the affine matrix.
compute_matrix(t) ==
    [x_axis |-> <<t.scale, 0, 0, 0>>, y_axis |-> <<0, t.scale, 0, 0>>,
     z_axis |-> <<0, 0, t.scale, 0>>,
     w_axis |-> <<t.translation[1], t.translation[2], t.translation[3], 1>>]

\* The query of extract_tilemaps matches an entity that has all four components.
Extractable(c) ==
    c.transform.some /\ c.chunk.some /\ c.tilemap_uniform.some /\ c.mesh.some

ExtractedBundle(c) ==
    [layer_id |-> c.chunk.v.settings.layer_id,
     image |-> c.chunk.v.material,
     mesh |-> c.mesh.v,
     tilemap_uniform |-> c.tilemap_uniform.v,
     mesh_uniform |-> [transform |-> compute_matrix(c.transform.v)]]

\* A Vec that pairs every matched entity with the bundle of the first.
ExtractedTilemapsOfFirst(w) ==
    LET matched == Ascending({e \in Entities : Extractable(w[e])}) IN
    [i \in DOMAIN matched |-> <<matched[i], ExtractedBundle(w[matched[1]])>>]

\* The Vec extracted_tilemaps: a pair of entity and bundle for each entity the
\* query matches, in iteration order.
ExtractedTilemaps(w) ==
    LET matched == Ascending({e \in Entities : Extractable(w[e])}) IN
    [i \in DOMAIN matched |-> <<matched[i], ExtractedBundle(w[matched[i]])>>]

\* A batch spawned as new entities: a bundle whose entity the render world
\* already has goes to an entity of its own.
spawn_batch(rw, batch) ==
    LET taken == {e \in Entities : rw[e].some}
        again == {i \in DOMAIN batch : batch[i][1] \in taken}
        free == (Entities \ taken) \ {batch[i][1] : i \in DOMAIN batch}
    IN  [e \in Entities |->
            IF \E i \in DOMAIN batch \ again : batch[i][1] = e
            THEN Some(batch[CHOOSE i \in DOMAIN batch : batch[i][1] = e][2])
            ELSE IF again # {} /\ e \in free /\ \A d \in free : e <= d
            THEN Some(batch[CHOOSE i \in again : \A j \in again : i <= j][2])
            ELSE rw[e]]

\* insert_or_spawn_batch: the bundle replaces what the entity had, an entity
\* that was not there is spawned, the others are left alone.
insert_or_spawn_batch(rw, batch) ==
    [e \in Entities |->
        IF \E i \in DOMAIN batch : batch[i][1] = e
        THEN Some(batch[CHOOSE i \in DOMAIN batch : batch[i][1] = e][2])
        ELSE rw[e]]

\* An extraction that moves the mesh handle out of the simulation world.
extract_tilemaps_taking ==
    /\ stage = "extract"
    /\ panicked = ""
    /\ render_world' = insert_or_spawn_batch(render_world, ExtractedTilemaps(world))
    /\ world' = [e \in Entities |->
                    IF Extractable(world[e]) THEN [world[e] EXCEPT !.mesh = Nothing]
                    ELSE world[e]]
    /\ stage' = "prepare"
    /\ UNCHANGED <<hostVars, keyVars, image_bind_groups,
                   transform_bind_group, tilemap_bind_group, view_bind_group,
                   transparent_phase, pipelines, created, ran, frame, cursor,
                   pass, panicked>>

\* The query borrows the components (`&GlobalTransform, &Chunk, ..`) and the
\* handles are cloned: the simulation world is read, the commands write the
\* render world.
extract_tilemaps ==
    /\ stage = "extract"
    /\ panicked = ""
    /\ render_world' = insert_or_spawn_batch(render_world, ExtractedTilemaps(world))
    /\ world' = world
    /\ stage' = "prepare"
    /\ UNCHANGED <<hostVars, keyVars, image_bind_groups,
                   transform_bind_group, tilemap_bind_group, view_bind_group,
                   transparent_phase, pipelines, created, ran, frame, cursor,
                   pass, panicked>>

\* The system run a second time in the frame, on the same simulation world.
extract_tilemaps_again ==
    /\ stage = "prepare"
    /\ panicked = ""
    /\ render_world' = insert_or_spawn_batch(render_world, ExtractedTilemaps(world))
    /\ world' = world
    /\ stage' = "extracted twice"
    /\ UNCHANGED <<hostVars, keyVars, image_bind_groups,
                   transform_bind_group, tilemap_bind_group, view_bind_group,
                   transparent_phase, pipelines, created, ran, frame, cursor,
                   pass, panicked>>

(***************************************************************************)
(* The host's prepare stage: the uniform buffers of the frame are written  *)
(* (or left empty), images and meshes are uploaded, replaced or removed.   *)
(***************************************************************************)
MeshStates == {"none", "indexed", "plain"}

HasExtracted == \E e \in Entities : render_world[e].some

HostPrepare ==
    /\ stage = "prepare"
    /\ panicked = ""
    /\ view_uniforms' \in BOOLEAN
    \* one uniform is written per extracted entity: the component buffers have
    \* a binding in the frames that have such entities
    /\ transform_uniforms' = HasExtracted
    /\ tilemap_uniforms' = HasExtracted
    /\ gpu_images' \in [Images -> 0 .. frame]
    /\ \A h \in Images : gpu_images'[h] \in {0, gpu_images[h], frame}
    /\ stage' = "queue"
    /\ ran' = {}
    /\ UNCHANGED <<simVars, keyVars, msaa, views, gpu_meshes, render_world,
                   image_bind_groups,
                   transform_bind_group, tilemap_bind_group, view_bind_group,
                   transparent_phase, pipelines, created, frame, cursor, pass,
                   panicked>>

(***************************************************************************)
(* The queue stage                                                         *)
(***************************************************************************)
\* UniformVec::binding(): the buffer of this frame, when there is one.
Binding(present, buffer) ==
    IF present THEN Some([buffer |-> buffer, frame |-> frame]) ELSE Nothing

create_bind_group(label, layout, entries) ==
    [label |-> label, layout |-> layout, entries |-> entries]

\* A system that builds the bind group only when there is none yet.
InsertIfAbsent(binding, label, layout, resource) ==
    IF binding.some /\ ~resource.some
    THEN Some(create_bind_group(label, layout, <<binding.v>>))
    ELSE resource

\* A system that removes the resource when the buffer has no binding.
InsertOrRemove(binding, label, layout, resource) ==
    IF binding.some
    THEN Some(create_bind_group(label, layout, <<binding.v>>))
    ELSE Nothing

\* `if let Some(binding) = ... { commands.insert_resource(...) }`: the
\* resource is inserted over the old one, or nothing is done.
InsertIfBound(binding, label, layout, resource) ==
    IF binding.some
    THEN Some(create_bind_group(label, layout, <<binding.v>>))
    ELSE resource

queue_transform_bind_group ==
    /\ stage = "queue"
    /\ panicked = ""
    /\ "queue_transform_bind_group" \notin ran
    /\ transform_bind_group' =
          InsertIfBound(Binding(transform_uniforms, "transform_uniforms"),
                        "transform_bind_group", tilemap_pipeline.mesh_layout, transform_bind_group)
    /\ ran' = ran \cup {"queue_transform_bind_group"}
    /\ UNCHANGED <<simVars, hostVars, keyVars, render_world, image_bind_groups,
                   tilemap_bind_group, view_bind_group, transparent_phase,
                   pipelines, created, stage, frame, cursor, pass, panicked>>

queue_tilemap_bind_group ==
    /\ stage = "queue"
    /\ panicked = ""
    /\ "queue_tilemap_bind_group" \notin ran
    /\ tilemap_bind_group' =
          InsertIfBound(Binding(tilemap_uniforms, "tilemap_uniforms"),
                        "tilemap_bind_group", tilemap_pipeline.uniform_layout, tilemap_bind_group)
    /\ ran' = ran \cup {"queue_tilemap_bind_group"}
    /\ UNCHANGED <<simVars, hostVars, keyVars, render_world, image_bind_groups,
                   transform_bind_group, view_bind_group, transparent_phase,
                   pipelines, created, stage, frame, cursor, pass, panicked>>

\* The GPU image of a handle: its texture view and its sampler.
GpuImage(image) ==
    [texture_view |-> <<"texture_view", image, gpu_images[image]>>,
     sampler |-> <<"sampler", image, gpu_images[image]>>]

\* A closure that binds the texture view and sampler of one image for all.
MaterialBindGroupOfFirst(image) ==
    IF gpu_images[image] = 0 THEN Panic("gpu_images.get(&image).unwrap()")
    ELSE Ok(create_bind_group("sprite_material_bind_group", tilemap_pipeline.material_layout,
                              <<GpuImage("imgA").texture_view,
                                GpuImage("imgA").sampler>>))

\* The closure of or_insert_with: gpu_images.get(&image).unwrap() and the
\* bind group of that image's texture view and sampler.
MaterialBindGroup(image) ==
    IF gpu_images[image] = 0 THEN Panic("gpu_images.get(&image).unwrap()")
    ELSE Ok(create_bind_group("sprite_material_bind_group", tilemap_pipeline.material_layout,
                              <<GpuImage(image).texture_view, GpuImage(image).sampler>>))

\* An insert that makes the bind group anew when the GPU image of a cached
\* handle is no longer the one the cached bind group was made of.
InsertOrRefresh(values, n, image) ==
    IF values[image].some /\ values[image].v.entries[1] = GpuImage(image).texture_view
    THEN [ok |-> TRUE, values |-> values, created |-> n]
    ELSE LET made == MaterialBindGroup(image) IN
         IF made.ok
         THEN [ok |-> TRUE, values |-> [values EXCEPT ![image] = Some(made.val)],
               created |-> [n EXCEPT ![image] = @ + 1]]
         ELSE [ok |-> FALSE, values |-> values, created |-> n, why |-> made.why]

\* An insert that runs the closure whether or not the map has the entry.
InsertAlways(values, n, image) ==
    LET made == MaterialBindGroup(image) IN
    IF made.ok
    THEN [ok |-> TRUE, values |-> [values EXCEPT ![image] = Some(made.val)],
          created |-> [n EXCEPT ![image] = @ + 1]]
    ELSE [ok |-> FALSE, values |-> values, created |-> n, why |-> made.why]

\* HashMap::entry(image).or_insert_with(closure): the closure runs only when
\* the map has no entry for the handle.
OrInsertWith(values, n, image) ==
    IF values[image].some THEN [ok |-> TRUE, values |-> values, created |-> n]
    ELSE LET made == MaterialBindGroup(image) IN
         IF made.ok
         THEN [ok |-> TRUE, values |-> [values EXCEPT ![image] = Some(made.val)],
               created |-> [n EXCEPT ![image] = @ + 1]]
         ELSE [ok |-> FALSE, values |-> values, created |-> n, why |-> made.why]

RECURSIVE IndexOf(_, _, _)
IndexOf(s, k, i) ==
    IF i > Len(s) THEN 0 ELSE IF s[i].key = k THEN i ELSE IndexOf(s, k, i + 1)

\* SpecializedPipelines::specialize: the id cached for the key, or the id of
\* the pipeline queued for it now.
CachedPipelines(cache, k) ==
    IF IndexOf(cache, k, 1) = 0
    THEN Append(cache, [key |-> k, descriptor |-> specialize(tilemap_pipeline, k)])
    ELSE cache

\* A sort key that ignores the layer.
SortKeyFlat(layer_id) == AsF32(0)

\* FloatOrd(layer_id.0 as f32)
SortKey(layer_id) == AsF32(layer_id)

\* The entities the query of queue_meshes matches, in iteration order.
Eligible == Ascending({e \in Entities : render_world[e].some})

\* A loop body that queues an entity for the first view only.
QueueEntityOnce(st, v, e, msaa_key) ==
    LET b == render_world[e].v
        got == OrInsertWith(st.values, st.created, b.image)
        cache == CachedPipelines(st.pipelines, msaa_key)
        item == [entity |-> e, draw_function |-> "DrawTilemap",
                 pipeline |-> IndexOf(cache, msaa_key, 1),
                 sort_key |-> SortKey(b.layer_id)]
        queued == \E u \in Views : \E i \in DOMAIN st.phase[u] : st.phase[u][i].entity = e
    IN  IF ~got.ok THEN [st EXCEPT !.panicked = got.why]
        ELSE [st EXCEPT !.values = got.values, !.created = got.created,
                        !.pipelines = cache,
                        !.phase = [@ EXCEPT ![v] = IF queued THEN @ ELSE Append(@, item)]]

\* The body of the inner loop for one entity and one view.
QueueEntity(st, v, e, msaa_key) ==
    LET b == render_world[e].v
        got == OrInsertWith(st.values, st.created, b.image)
        cache == CachedPipelines(st.pipelines, msaa_key)
        item == [entity |-> e, draw_function |-> "DrawTilemap",
                 pipeline |-> IndexOf(cache, msaa_key, 1),
                 sort_key |-> SortKey(b.layer_id)]
    IN  IF ~got.ok THEN [st EXCEPT !.panicked = got.why]
        ELSE [st EXCEPT !.values = got.values, !.created = got.created,
                        !.pipelines = cache,
                        !.phase = [@ EXCEPT ![v] = Append(@, item)]]

RECURSIVE QueueEntities(_, _, _, _)
QueueEntities(st, v, es, msaa_key) ==
    IF es = <<>> \/ st.panicked # "" THEN st
    ELSE QueueEntities(QueueEntity(st, v, Head(es), msaa_key), v, Tail(es), msaa_key)

\* A loop body that makes the view bind group for the first view only.
QueueViewLazyGroup(st, v, view_binding, msaa_key) ==
    LET group == create_bind_group("tilemap_view_bind_group", tilemap_pipeline.view_layout,
                                   <<view_binding>>)
        st1 == IF v = 1 THEN [st EXCEPT !.commands = [@ EXCEPT ![v] = Some(group)]]
               ELSE st
    IN  QueueEntities(st1, v, Eligible, msaa_key)

\* The body of the outer loop for one view: its bind group (a command, applied
\* after the system has returned), then the entities.
QueueView(st, v, view_binding, msaa_key) ==
    LET group == create_bind_group("tilemap_view_bind_group", tilemap_pipeline.view_layout,
                                   <<view_binding>>)
        st1 == [st EXCEPT !.commands = [@ EXCEPT ![v] = Some(group)]]
    IN  QueueEntities(st1, v, Eligible, msaa_key)

RECURSIVE QueueViews(_, _, _, _)
QueueViews(st, vs, view_binding, msaa_key) ==
    IF vs = <<>> \/ st.panicked # "" THEN st
    ELSE QueueViews(QueueView(st, Head(vs), view_binding, msaa_key), Tail(vs),
                    view_binding, msaa_key)

\* A view binding that is there whatever the buffer holds.
ViewBindingAlways == Binding(TRUE, "view_uniforms")

\* view_uniforms.uniforms.binding()
ViewBinding == Binding(view_uniforms, "view_uniforms")

\* What queue_meshes leaves behind, from the state it starts in.
QueueMeshesResult ==
    LET st0 == [values |-> image_bind_groups, created |-> created,
                phase |-> transparent_phase, pipelines |-> pipelines,
                commands |-> view_bind_group, panicked |-> ""]
    IN  IF ~ViewBinding.some THEN st0
        ELSE LET msaa_key == from_msaa_samples(ToU32(msaa), overflow_checks) IN
             IF ~msaa_key.ok THEN [st0 EXCEPT !.panicked = msaa_key.why]
             ELSE QueueViews(st0, Ascending(views), ViewBinding.v, msaa_key.val)

queue_meshes ==
    /\ stage = "queue"
    /\ panicked = ""
    /\ "queue_meshes" \notin ran
    /\ LET st == QueueMeshesResult IN
       /\ image_bind_groups' = st.values
       /\ created' = st.created
       /\ transparent_phase' = st.phase
       /\ pipelines' = st.pipelines
       /\ panicked' = st.panicked
       \* the commands of a system that panicked are never applied
       /\ view_bind_group' = IF st.panicked = "" THEN st.commands ELSE view_bind_group
    /\ ran' = ran \cup {"queue_meshes"}
    /\ UNCHANGED <<simVars, hostVars, keyVars, render_world, transform_bind_group,
                   tilemap_bind_group, stage, frame, cursor, pass>>

QueueSystems ==
    {"queue_transform_bind_group", "queue_tilemap_bind_group", "queue_meshes"}

\* The host's phase sort, after every system of the queue stage has run:
\* each view's items ascending by sort key.  The mesh table is read by the
\* draw stage alone: it is given here as that stage will find it, with a mesh
\* for extracted entities only, and with at most one mesh that cannot be drawn
\* (the first such mesh ends the app, a second one would never be read).
SortPhase ==
    /\ stage = "queue"
    /\ panicked = ""
    /\ ran = QueueSystems
    /\ gpu_meshes' \in [Entities -> MeshStates]
    /\ \A e \in Entities : ~render_world[e].some => gpu_meshes'[e] = "none"
    /\ Cardinality({e \in Entities : render_world[e].some /\ gpu_meshes'[e] # "indexed"}) <= 1
    /\ transparent_phase' = [v \in Views |-> SortByKey(transparent_phase[v])]
    /\ stage' = "draw"
    /\ cursor' = 0
    /\ pass' = <<>>
    /\ UNCHANGED <<simVars, keyVars, msaa, views, view_uniforms, transform_uniforms,
                   tilemap_uniforms, gpu_images, render_world, image_bind_groups,
                   transform_bind_group, tilemap_bind_group, view_bind_group,
                   pipelines, created, ran, frame, panicked>>

(***************************************************************************)
(* The draw stage: the render commands of DrawTilemap, run in order for    *)
(* each item of each view's sorted phase.                                  *)
(***************************************************************************)
\* The dynamic offsets the host's prepare stage hands out.
ViewUniformOffset(v) == [offset |-> 256 * (v - 1)]

DynamicUniformIndex(component, e) ==
    [component |-> component,
     index |-> 256 * Cardinality({d \in Entities : d < e /\ render_world[d].some})]

\* The GpuMesh of a mesh handle: its buffers and, for an indexed mesh, the
\* number of its indices (a quad of six indices per tile, a tile more in each
\* mesh).
IndexCount(m) == 6 * m.mesh

GpuMesh(m) ==
    [vertex_buffer |-> <<"vertex_buffer", m>>,
     index_info |->
        IF gpu_meshes[m.mesh] = "indexed"
        THEN Some([buffer |-> <<"index_buffer", m>>, count |-> IndexCount(m),
                   index_format |-> "Uint32"])
        ELSE Nothing]

\* A render command's outcome: the calls made on the pass, and whether it panicked.
Pass(p) == [ok |-> TRUE, pass |-> p]

PassPanic(p, why) == [ok |-> FALSE, pass |-> p, why |-> why]

set_bind_group(p, index, group, offsets) ==
    Append(p, [op |-> "set_bind_group", index |-> index, bind_group |-> group,
               offsets |-> offsets])

SetItemPipeline(view, item, p) ==
    Pass(Append(p, [op |-> "set_render_pipeline", pipeline |-> item.pipeline]))

SetMeshViewBindGroup(I, view, item, p) ==
    IF ~view_bind_group[view].some THEN PassPanic(p, "view_query.get(view).unwrap()")
    ELSE Pass(set_bind_group(p, I, view_bind_group[view].v,
                             <<ViewUniformOffset(view).offset>>))

SetTransformBindGroup(I, view, item, p) ==
    IF ~transform_bind_group.some
    THEN PassPanic(p, "Resource requested does not exist: TransformBindGroup")
    ELSE IF ~render_world[item.entity].some
    THEN PassPanic(p, "mesh_query.get(item.entity).unwrap()")
    ELSE Pass(set_bind_group(p, I, transform_bind_group.v,
                             <<DynamicUniformIndex("MeshUniform", item.entity).index>>))

SetTilemapBindGroup(I, view, item, p) ==
    IF ~tilemap_bind_group.some
    THEN PassPanic(p, "Resource requested does not exist: TilemapUniformDataBindGroup")
    ELSE IF ~render_world[item.entity].some
    THEN PassPanic(p, "mesh_query.get(item.entity).unwrap()")
    ELSE Pass(set_bind_group(p, I, tilemap_bind_group.v,
                             <<DynamicUniformIndex("TilemapUniformData", item.entity).index>>))

SetMaterialBindGroup(I, view, item, p) ==
    IF ~render_world[item.entity].some
    THEN PassPanic(p, "entities_with_images.get(item.entity).unwrap()")
    ELSE LET image_handle == render_world[item.entity].v.image IN
         IF ~image_bind_groups[image_handle].some
         THEN PassPanic(p, "image_bind_groups.values.get(image_handle).unwrap()")
         ELSE Pass(set_bind_group(p, I, image_bind_groups[image_handle].v, <<>>))

\* A DrawMesh that draws a mesh without index data with a non-indexed draw.
DrawMeshAnyMesh(view, item, p) ==
    IF ~render_world[item.entity].some
    THEN PassPanic(p, "mesh_query.get(item.entity).unwrap()")
    ELSE LET mesh_handle == render_world[item.entity].v.mesh IN
         IF gpu_meshes[mesh_handle.mesh] = "none"
         THEN PassPanic(p, "meshes.get(mesh_handle).unwrap()")
         ELSE LET gpu_mesh == GpuMesh(mesh_handle)
                  p1 == Append(p, [op |-> "set_vertex_buffer", slot |-> 0,
                                   buffer |-> gpu_mesh.vertex_buffer])
              IN  IF gpu_mesh.index_info.some
                  THEN LET index_info == gpu_mesh.index_info.v IN
                       Pass(p1 \o
                            <<[op |-> "set_index_buffer", buffer |-> index_info.buffer,
                               offset |-> 0, index_format |-> index_info.index_format],
                              [op |-> "draw_indexed", indices |-> <<0, index_info.count>>,
                               base_vertex |-> 0, instances |-> <<0, 1>>]>>)
                  ELSE Pass(Append(p1, [op |-> "draw", vertices |-> <<0, IndexCount(mesh_handle)>>,
                                        instances |-> <<0, 1>>]))

DrawMesh(view, item, p) ==
    IF ~render_world[item.entity].some
    THEN PassPanic(p, "mesh_query.get(item.entity).unwrap()")
    ELSE LET mesh_handle == render_world[item.entity].v.mesh IN
         IF gpu_meshes[mesh_handle.mesh] = "none"
         THEN PassPanic(p, "meshes.get(mesh_handle).unwrap()")
         ELSE LET gpu_mesh == GpuMesh(mesh_handle)
                  p1 == Append(p, [op |-> "set_vertex_buffer", slot |-> 0,
                                   buffer |-> gpu_mesh.vertex_buffer])
              IN  IF gpu_mesh.index_info.some
                  THEN LET index_info == gpu_mesh.index_info.v IN
                       Pass(p1 \o
                            <<[op |-> "set_index_buffer", buffer |-> index_info.buffer,
                               offset |-> 0, index_format |-> index_info.index_format],
                              [op |-> "draw_indexed", indices |-> <<0, index_info.count>>,
                               base_vertex |-> 0, instances |-> <<0, 1>>]>>)
                  ELSE PassPanic(p1, "non-indexed drawing not supported yet")

\* A tuple that binds the material before the tilemap uniforms.
DrawTilemapSwapped ==
    <<<<"SetItemPipeline">>, <<"SetMeshViewBindGroup", 0>>,
      <<"SetTransformBindGroup", 1>>, <<"SetMaterialBindGroup", 3>>,
      <<"SetTilemapBindGroup", 2>>, <<"DrawMesh">>>>

\* The tuple of render commands, each with its bind group slot where it has one.
DrawTilemap ==
    <<<<"SetItemPipeline">>, <<"SetMeshViewBindGroup", 0>>,
      <<"SetTransformBindGroup", 1>>, <<"SetTilemapBindGroup", 2>>,
      <<"SetMaterialBindGroup", 3>>, <<"DrawMesh">>>>

Render(c, view, item, p) ==
    CASE c[1] = "SetItemPipeline" -> SetItemPipeline(view, item, p)
      [] c[1] = "SetMeshViewBindGroup" -> SetMeshViewBindGroup(c[2], view, item, p)
      [] c[1] = "SetTransformBindGroup" -> SetTransformBindGroup(c[2], view, item, p)
      [] c[1] = "SetTilemapBindGroup" -> SetTilemapBindGroup(c[2], view, item, p)
      [] c[1] = "SetMaterialBindGroup" -> SetMaterialBindGroup(c[2], view, item, p)
      [] c[1] = "DrawMesh" -> DrawMesh(view, item, p)

\* A tuple of render commands runs its members in order; a panic ends it.
RECURSIVE RenderTuple(_, _, _, _)
RenderTuple(cs, view, item, r) ==
    IF cs = <<>> \/ ~r.ok THEN r
    ELSE RenderTuple(Tail(cs), view, item, Render(Head(cs), view, item, r.pass))

\* The items of the frame in the order the render graph draws them.
RECURSIVE ItemsOf(_)
ItemsOf(vs) ==
    IF vs = <<>> THEN <<>>
    ELSE [i \in 1 .. Len(transparent_phase[Head(vs)]) |-> <<Head(vs), i>>]
         \o ItemsOf(Tail(vs))

DrawOrder == ItemsOf(Ascending(views))

\* A draw that drops the material bind group of the item once it is drawn.
DrawItemEvicting ==
    /\ stage = "draw"
    /\ panicked = ""
    /\ cursor < Len(DrawOrder)
    /\ LET view == DrawOrder[cursor + 1][1]
           item == transparent_phase[view][DrawOrder[cursor + 1][2]]
           r == RenderTuple(DrawTilemap, view, item, Pass(<<>>))
       IN  /\ pass' = r.pass
           /\ panicked' = IF r.ok THEN "" ELSE r.why
           /\ image_bind_groups' =
                 [image_bind_groups EXCEPT ![render_world[item.entity].v.image] = Nothing]
    /\ cursor' = cursor + 1
    /\ UNCHANGED <<simVars, hostVars, keyVars, render_world,
                   transform_bind_group, tilemap_bind_group, view_bind_group,
                   transparent_phase, pipelines, created, stage, ran, frame>>

DrawItem ==
    /\ stage = "draw"
    /\ panicked = ""
    /\ cursor < Len(DrawOrder)
    /\ LET view == DrawOrder[cursor + 1][1]
           item == transparent_phase[view][DrawOrder[cursor + 1][2]]
           r == RenderTuple(DrawTilemap, view, item, Pass(<<>>))
       IN  /\ pass' = r.pass
           /\ panicked' = IF r.ok THEN "" ELSE r.why
    /\ cursor' = cursor + 1
    /\ UNCHANGED <<simVars, hostVars, keyVars, render_world, image_bind_groups,
                   transform_bind_group, tilemap_bind_group, view_bind_group,
                   transparent_phase, pipelines, created, stage, ran, frame>>

(***************************************************************************)
(* The end of the frame: the host clears the entities of the render world  *)
(* (the views with their phases and bind groups among them) and the        *)
(* uniform buffers, and the simulation moves on.                           *)
(***************************************************************************)
SimChoices(e) == {Despawned} \cup CompleteEntities(e)

Worlds == {w \in [Entities -> UNION {SimChoices(e) : e \in Entities}] :
              \A e \in Entities : w[e] \in SimChoices(e)}

\* The simulation between two frames: at most one entity is spawned or despawned.
SimStep(w) ==
    {w} \cup UNION {{[w EXCEPT ![e] = c] :
                        c \in {d \in SimChoices(e) : d = Despawned \/ w[e] = Despawned}} :
                    e \in Entities}

NoEntities == [e \in Entities |-> Nothing]

NoPhases == [v \in Views |-> <<>>]

NoViewGroups == [v \in Views |-> Nothing]

EndFrame ==
    /\ stage = "draw"
    /\ panicked = ""
    /\ cursor = Len(DrawOrder)
    /\ frame < MaxFrames
    /\ frame' = frame + 1
    /\ world' \in SimStep(world)
    /\ render_world' = NoEntities
    /\ transparent_phase' = NoPhases
    /\ view_bind_group' = NoViewGroups
    /\ view_uniforms' = FALSE
    /\ transform_uniforms' = FALSE
    /\ tilemap_uniforms' = FALSE
    /\ stage' = "extract"
    /\ ran' = {}
    /\ cursor' = 0
    /\ pass' = <<>>
    /\ gpu_meshes' = [e \in Entities |-> "none"]
    /\ UNCHANGED <<keyVars, msaa, views, gpu_images, image_bind_groups,
                   transform_bind_group, tilemap_bind_group, pipelines, created,
                   panicked>>

(***************************************************************************)
(* The program: frames of extract, prepare, queue, sort and draw.          *)
(***************************************************************************)
KeyIdle ==
    /\ key_in = ToU32(1)
    /\ key_stage = "idle"
    /\ key = NONE
    /\ key_out = ToU32(1)

RenderStart ==
    /\ render_world = NoEntities
    /\ view_uniforms = FALSE
    /\ transform_uniforms = FALSE
    /\ tilemap_uniforms = FALSE
    /\ gpu_images = [h \in Images |-> 0]
    /\ gpu_meshes = [e \in Entities |-> "none"]
    /\ image_bind_groups = [h \in Images |-> Nothing]
    /\ transform_bind_group = Nothing
    /\ tilemap_bind_group = Nothing
    /\ view_bind_group = NoViewGroups
    /\ transparent_phase = NoPhases
    /\ pipelines = <<>>
    /\ created = [h \in Images |-> 0]
    /\ stage = "extract"
    /\ ran = {}
    /\ frame = 1
    /\ cursor = 0
    /\ pass = <<>>
    /\ panicked = ""

Init ==
    /\ world \in Worlds
    /\ msaa \in MsaaSettings
    /\ views \in {1 .. n : n \in 0 .. NumViews}
    /\ overflow_checks = TRUE
    /\ RenderStart
    /\ KeyIdle

Next ==
    \/ extract_tilemaps
    \/ HostPrepare
    \/ queue_transform_bind_group
    \/ queue_tilemap_bind_group
    \/ queue_meshes
    \/ SortPhase
    \/ DrawItem
    \/ EndFrame

Spec == Init /\ [][Next]_vars

(***************************************************************************)
(* The key encoding on its own: a sample count is encoded, and the key     *)
(* decoded again.                                                          *)
(***************************************************************************)
renderVars ==
    <<world, render_world, msaa, views, view_uniforms, transform_uniforms,
      tilemap_uniforms, gpu_images, gpu_meshes, image_bind_groups,
      transform_bind_group, tilemap_bind_group, view_bind_group,
      transparent_phase, pipelines, created, stage, ran, frame, cursor, pass>>

EncodeKey ==
    /\ key_stage = "input"
    /\ LET r == from_msaa_samples(key_in, overflow_checks) IN
       /\ key_stage' = IF r.ok THEN "encoded" ELSE "panicked"
       /\ key' = IF r.ok THEN r.val ELSE key
       /\ panicked' = IF r.ok THEN "" ELSE r.why
    /\ UNCHANGED <<renderVars, overflow_checks, key_in, key_out>>

DecodeKey ==
    /\ key_stage = "encoded"
    /\ key_out' = msaa_samples(key)
    /\ key_stage' = "decoded"
    /\ UNCHANGED <<renderVars, panicked, overflow_checks, key_in, key>>

KeyInit ==
    /\ world = [e \in Entities |-> Despawned]
    /\ msaa = 1
    /\ views = {}
    /\ RenderStart
    /\ overflow_checks \in BOOLEAN
    /\ key_in \in SampleInputs
    /\ key_stage = "input"
    /\ key = NONE
    /\ key_out = ToU32(0)

\* tilemap_pipeline.specialize(key), called on the key as often as
\* MaxSpecializeCalls allows.
SpecializeKey ==
    /\ key_stage = "decoded"
    /\ Len(pipelines) < MaxSpecializeCalls
    /\ pipelines' =
          Append(pipelines, [key |-> key, descriptor |-> specialize(tilemap_pipeline, key)])
    /\ UNCHANGED <<keyVars, panicked, world, render_world, msaa, views,
                   view_uniforms, transform_uniforms, tilemap_uniforms, gpu_images,
                   gpu_meshes, image_bind_groups, transform_bind_group,
                   tilemap_bind_group, view_bind_group, transparent_phase, created,
                   stage, ran, frame, cursor, pass>>

KeyNext == EncodeKey \/ DecodeKey \/ SpecializeKey

SpecKey == KeyInit /\ [][KeyNext]_vars

(***************************************************************************)
(* Extraction on its own: a simulation world whose entities have any of    *)
(* the four components, extracted into an empty render world, once and     *)
(* then once more.                                                         *)
(***************************************************************************)
AnyComponents(e) ==
    {[transform |-> t, chunk |-> c, tilemap_uniform |-> u, mesh |-> m] :
        t \in {Nothing, Some(TransformOf(e))},
        c \in {Nothing} \cup {Some(ChunkOf(l, i)) : l \in LayerIds, i \in Images},
        u \in {Nothing, Some(UniformDataOf(e))},
        m \in {Nothing, Some(MeshHandleOf(e))}}

AnyWorlds ==
    {w \in [Entities -> UNION {AnyComponents(e) : e \in Entities}] :
        \A e \in Entities : w[e] \in AnyComponents(e)}

ExtractInit ==
    /\ world \in AnyWorlds
    /\ msaa = 1
    /\ views = {}
    /\ overflow_checks = TRUE
    /\ RenderStart
    /\ KeyIdle

ExtractNext == extract_tilemaps \/ extract_tilemaps_again

SpecExtract == ExtractInit /\ [][ExtractNext]_vars

(***************************************************************************)
(* The claims.                                                             *)
(***************************************************************************)
ValidSamples == {ToU32(n) : n \in 1 .. 64}

\* C1: for every sample count n with 1 <= n <= 64, the count decoded from the
\* key encoded for n is n.
C1_RoundTrip ==
    (key_stage = "decoded" /\ key_in \in ValidSamples) => key_out = key_in

C1_Witness ==
    key_stage = "decoded" /\ key_in = ToU32(64) /\ key_out = ToU32(64)

\* The count a saturating encoding would decode to.
Saturated(n) == IF IsZero(n) THEN ToU32(1) ELSE ToU32(64)

\* C2: a sample count outside [1,64] is rejected, or the key returned for it
\* decodes to the saturation of the count; it never decodes to another count.
C2_NoSilentWrap ==
    (key_stage = "decoded" /\ key_in \notin ValidSamples) => key_out = Saturated(key_in)

\* A step of one system of the queue stage.
Ran(system) == system \notin ran /\ system \in ran'

\* C3: when the view uniform binding is absent, queue_meshes leaves every
\* view's phase, every view bind group and the material cache as they were,
\* creates no bind group and does not panic.
C3_NoBindingNoQueue ==
    [][(Ran("queue_meshes") /\ ~view_uniforms) =>
          /\ transparent_phase' = transparent_phase
          /\ view_bind_group' = view_bind_group
          /\ image_bind_groups' = image_bind_groups
          /\ created' = created
          /\ pipelines' = pipelines
          /\ panicked' = ""]_vars

C3_Witness ==
    /\ "queue_meshes" \in ran
    /\ ~view_uniforms
    /\ views # {}
    /\ HasExtracted
    /\ \E h \in Images : gpu_images[h] = 0
    /\ panicked = ""

LayerOf(item) == render_world[item.entity].v.layer_id

\* C4: every item carries its entity's layer id as sort key, and in the sorted
\* phase of a view an item of a lower layer is drawn before one of a higher.
C4_LayerOrder ==
    \A v \in Views :
        /\ \A i \in DOMAIN transparent_phase[v] :
              transparent_phase[v][i].sort_key = LayerOf(transparent_phase[v][i])
        /\ stage = "draw" =>
              \A i, j \in DOMAIN transparent_phase[v] :
                  LayerOf(transparent_phase[v][i]) < LayerOf(transparent_phase[v][j])
                      => i < j

C4_Witness ==
    /\ stage = "draw"
    /\ \E v \in Views :
          /\ Len(transparent_phase[v]) >= 2
          /\ transparent_phase[v][1].entity > transparent_phase[v][2].entity
          /\ LayerOf(transparent_phase[v][1]) = 1
          /\ LayerOf(transparent_phase[v][2]) = 65535

\* The bind group each of the two systems builds from this frame's buffer.
FreshTransformGroup ==
    create_bind_group("transform_bind_group", tilemap_pipeline.mesh_layout,
                      <<[buffer |-> "transform_uniforms", frame |-> frame]>>)

FreshTilemapGroup ==
    create_bind_group("tilemap_bind_group", tilemap_pipeline.uniform_layout,
                      <<[buffer |-> "tilemap_uniforms", frame |-> frame]>>)

\* C5 as stated: once the system has run in a frame, its bind group resource
\* is present if and only if that frame's uniform buffer has a binding.
C5_PresentIffBound ==
    /\ "queue_transform_bind_group" \in ran =>
          (transform_bind_group.some <=> transform_uniforms)
    /\ "queue_tilemap_bind_group" \in ran =>
          (tilemap_bind_group.some <=> tilemap_uniforms)

\* C5 as amended: the system replaces the resource by a bind group of this
\* frame's buffer when the buffer has a binding, and otherwise leaves the
\* resource as it was, absent or left over from an earlier frame.
C5_RebuiltIffBound ==
    [][/\ Ran("queue_transform_bind_group") =>
             transform_bind_group' =
                IF transform_uniforms THEN Some(FreshTransformGroup)
                ELSE transform_bind_group
       /\ Ran("queue_tilemap_bind_group") =>
             tilemap_bind_group' =
                IF tilemap_uniforms THEN Some(FreshTilemapGroup)
                ELSE tilemap_bind_group]_vars

\* A frame without a binding in which the bind group of an earlier frame is
\* still there after the system ran, and a frame in which none ever was.
C5_Witness ==
    /\ "queue_transform_bind_group" \in ran
    /\ "queue_tilemap_bind_group" \in ran
    /\ ~transform_uniforms
    /\ ~tilemap_uniforms
    /\ transform_bind_group.some
    /\ transform_bind_group.v.entries[1].frame < frame
    /\ tilemap_bind_group.some

\* The image handles of the entities queue_meshes iterates.
Referenced == {render_world[e].v.image : e \in {d \in Entities : render_world[d].some}}

\* C6: a material bind group is created for a handle only when the cache has
\* no entry for it: no handle ever has more than one created, and the cache
\* holds an entry exactly for the handles that had one created.
C6_AtMostOneAllocation ==
    \A h \in Images :
        /\ created[h] <= 1
        /\ image_bind_groups[h].some <=> created[h] = 1

\* A later frame with two views, in which a handle cached by an earlier frame
\* was looked up again for every item.
C6_Witness ==
    /\ frame = 2
    /\ "queue_meshes" \in ran
    /\ panicked = ""
    /\ \E h \in Images :
          /\ created[h] = 1
          /\ \A v \in Views :
                /\ Len(transparent_phase[v]) = 2
                /\ \A i \in 1 .. 2 :
                      render_world[transparent_phase[v][i].entity].v.image = h

\* The bind group of image h's own texture view and sampler.
OwnGroup(h) ==
    create_bind_group("sprite_material_bind_group", tilemap_pipeline.material_layout,
                      <<<<"texture_view", h, gpu_images[h]>>,
                        <<"sampler", h, gpu_images[h]>>>>)

SumCreated(n) == n["imgA"] + n["imgB"]

\* C7: from an empty cache, a pass with the view binding, a view and every
\* referenced GPU image present creates one bind group per distinct handle
\* referenced (two for two handles), each from that handle's own texture view
\* and sampler.
C7_OnePerHandle ==
    [][(/\ Ran("queue_meshes")
        /\ view_uniforms
        /\ views # {}
        /\ \A h \in Images : ~image_bind_groups[h].some
        /\ \A h \in Referenced : gpu_images[h] # 0) =>
          /\ panicked' = ""
          /\ {h \in Images : image_bind_groups'[h].some} = Referenced
          /\ SumCreated(created') - SumCreated(created) = Cardinality(Referenced)
          /\ \A h \in Referenced : image_bind_groups'[h].v = OwnGroup(h)]_vars

C7_Witness ==
    /\ frame = 1
    /\ "queue_meshes" \in ran
    /\ Referenced = Images
    /\ gpu_images["imgA"] # 0 /\ gpu_images["imgB"] # 0
    /\ \A h \in Images : created[h] = 1 /\ image_bind_groups[h].some
    /\ image_bind_groups["imgA"].v # image_bind_groups["imgB"].v

\* C8: when queue_meshes has processed an eligible entity whose image has no
\* GPU image (view binding present, a view present), the pass has panicked and
\* no item was queued for that entity.
C8_MissingImageFatal ==
    (/\ "queue_meshes" \in ran
     /\ view_uniforms
     /\ views # {}
     /\ stage = "queue") =>
        \A e \in Entities :
            (render_world[e].some /\ gpu_images[render_world[e].v.image] = 0) =>
                /\ panicked # ""
                /\ \A v \in Views : \A i \in DOMAIN transparent_phase[v] :
                      transparent_phase[v][i].entity # e

\* The item the last DrawItem step drew, and the state of its mesh.
Drawn == transparent_phase[DrawOrder[cursor][1]][DrawOrder[cursor][2]]

DrawnMesh == gpu_meshes[render_world[Drawn.entity].v.mesh.mesh]

DrawCalls == {i \in DOMAIN pass : pass[i].op \in {"draw", "draw_indexed"}}

\* C9: for an item whose GPU mesh has no index data DrawMesh panics and the
\* pass holds no draw call, indexed or not; for a mesh with index data the
\* pass ends with the index buffer bound and then its one draw call, an
\* indexed draw of indices 0..count and one instance.
C9_FailFastOrOneDraw ==
    (stage = "draw" /\ cursor > 0) =>
        /\ DrawnMesh = "plain" =>
              /\ panicked = "non-indexed drawing not supported yet"
              /\ DrawCalls = {}
        /\ DrawnMesh = "indexed" =>
              /\ panicked = ""
              /\ DrawCalls = {Len(pass)}
              /\ pass[Len(pass)] =
                    [op |-> "draw_indexed", indices |-> <<0, IndexCount(render_world[Drawn.entity].v.mesh)>>,
                     base_vertex |-> 0, instances |-> <<0, 1>>]
              /\ pass[Len(pass) - 1].op = "set_index_buffer"
              /\ pass[Len(pass) - 1].buffer =
                    <<"index_buffer", render_world[Drawn.entity].v.mesh>>

\* An item with a non-indexed mesh drawn after an item with an indexed one.
C9_Witness ==
    /\ stage = "draw"
    /\ cursor = 2
    /\ DrawnMesh = "plain"
    /\ panicked = "non-indexed drawing not supported yet"
    /\ pass # <<>>
    /\ gpu_meshes[render_world[
            transparent_phase[DrawOrder[1][1]][DrawOrder[1][2]].entity].v.mesh.mesh]
          = "indexed"

\* What a call on the pass binds or does: its operation, with the slot and
\* the bind group's label for a bind group.
Step(call) ==
    IF call.op = "set_bind_group"
    THEN <<call.op, call.index, call.bind_group.label>>
    ELSE <<call.op>>

FixedOrder ==
    <<<<"set_render_pipeline">>,
      <<"set_bind_group", 0, "tilemap_view_bind_group">>,
      <<"set_bind_group", 1, "transform_bind_group">>,
      <<"set_bind_group", 2, "tilemap_bind_group">>,
      <<"set_bind_group", 3, "sprite_material_bind_group">>,
      <<"set_vertex_buffer">>,
      <<"set_index_buffer">>,
      <<"draw_indexed">>>>

\* C10: the calls made for an item are the fixed sequence pipeline, view bind
\* group at slot 0, transform at 1, tilemap uniforms at 2, material at 3,
\* vertex buffer, index buffer, indexed draw: all of it when the item is
\* drawn, and a prefix of it, without the draw, when a command panics.
C10_FixedOrder ==
    (stage = "draw" /\ cursor > 0) =>
        /\ Len(pass) <= Len(FixedOrder)
        /\ \A i \in DOMAIN pass : Step(pass[i]) = FixedOrder[i]
        /\ panicked = "" <=> Len(pass) = Len(FixedOrder)

\* The last item of a frame of two views and two entities, drawn in full.
C10_Witness ==
    /\ stage = "draw"
    /\ cursor = 4
    /\ panicked = ""
    /\ Len(pass) = 8
    /\ pass[8].op = "draw_indexed"

\* C11: for every key made from a sample count in 1..64, the descriptor
\* specialize returns has multisample count 1, and the descriptors of two
\* calls with that key are equal.
C11_MultisamplePinned ==
    key_in \in ValidSamples =>
        \A i, j \in DOMAIN pipelines :
            /\ pipelines[i].key = from_msaa_samples(key_in, overflow_checks).val
            /\ pipelines[i].descriptor.multisample.count = 1
            /\ pipelines[i].descriptor = pipelines[j].descriptor

\* The key of 64 samples, all six bits set, specialized twice.
C11_Witness ==
    /\ key_in = ToU32(64)
    /\ key = MSAA_RESERVED_BITS
    /\ Len(pipelines) = 2
    /\ pipelines[2].descriptor.multisample.count = 1

\* C12: extract_tilemaps run a second time in a frame, on the same simulation
\* world, leaves the render world as the first run left it: the same
\* entities, each once, with the same components.
C12_ExtractIdempotent ==
    [][(stage = "prepare" /\ stage' = "extracted twice") =>
          render_world' = render_world]_vars

\* A second run over a world with an extracted entity and one that has only
\* some of the components.
C12_Witness ==
    /\ stage = "extracted twice"
    /\ render_world[1].some
    /\ ~render_world[2].some
    /\ world[2].transform.some
    /\ world[2].mesh.some

\* C13: no step removes or replaces an entry of the material cache: a handle
\* once cached keeps the bind group it was given, whatever becomes of its GPU
\* image.
C13_CacheOnlyGrows ==
    [][\A h \in Images :
          image_bind_groups[h].some => image_bind_groups'[h] = image_bind_groups[h]]_vars

\* A later frame in which queue_meshes looked a cached handle up whose GPU
\* image was replaced or removed since, and the entry is the one of frame 1.
C13_Witness ==
    /\ frame = 2
    /\ "queue_meshes" \in ran
    /\ view_uniforms
    /\ views # {}
    /\ panicked = ""
    /\ \E h \in Referenced :
          /\ image_bind_groups[h].some
          /\ gpu_images[h] # 1
          /\ image_bind_groups[h].v.entries[1] = <<"texture_view", h, 1>>

\* C14: no step of the subsystem changes the simulation world: within a
\* frame every entity keeps every component it has.
C14_SimWorldUntouched ==
    [][frame' = frame => world' = world]_vars

\* The second frame drawn, after extraction, queueing and drawing of the first.
C14_Witness ==
    /\ frame = 2
    /\ stage = "draw"
    /\ cursor > 0
    /\ \A e \in Entities : Extractable(world[e]) /\ render_world[e].some

\* The calls of the pass that bind the transform or the tilemap-uniform group.
PerFrameBinds == {i \in DOMAIN pass : pass[i].op = "set_bind_group" /\ pass[i].index \in {1, 2}}

\* C15: in a frame whose transform or tilemap-uniform buffer has no binding
\* queue_meshes queues no item, so nothing is drawn; and no item that is
\* drawn finds the TransformBindGroup or TilemapUniformDataBindGroup missing
\* or binds one made of the buffer of an earlier frame.
C15_NoDrawWithoutGroups ==
    /\ ("queue_meshes" \in ran /\ ~(transform_uniforms /\ tilemap_uniforms)) =>
          \A v \in Views : transparent_phase[v] = <<>>
    /\ (stage = "draw" /\ cursor > 0) =>
          /\ panicked \notin
                {"Resource requested does not exist: TransformBindGroup",
                 "Resource requested does not exist: TilemapUniformDataBindGroup"}
          /\ \A i \in PerFrameBinds : pass[i].bind_group.entries[1].frame = frame

\* A second frame without extracted entities: the bind groups of frame 1 are
\* still there, the view binding and views are present, and the frame reaches
\* its draw stage with nothing to draw.
C15_Witness ==
    /\ frame = 2
    /\ stage = "draw"
    /\ ~transform_uniforms
    /\ ~tilemap_uniforms
    /\ transform_bind_group.some
    /\ tilemap_bind_group.some
    /\ view_uniforms
    /\ views # {}
    /\ DrawOrder = <<>>

\* The entities of the query of queue_meshes.
EligibleSet == {e \in Entities : render_world[e].some}

RECURSIVE SumLen(_, _)
SumLen(phase, vs) ==
    IF vs = {} THEN 0
    ELSE LET v == CHOOSE x \in vs : TRUE IN Len(phase[v]) + SumLen(phase, vs \ {v})

\* C16: after a pass of queue_meshes with the view binding and every
\* referenced GPU image present, the phase of each view holds exactly one item
\* per eligible entity and none else, V * E items in all; each item names its
\* entity, the DrawTilemap draw function and the pipeline of the key of the
\* current Msaa setting; and the pass did not panic.
C16_OneItemPerViewAndEntity ==
    (/\ "queue_meshes" \in ran
     /\ view_uniforms
     /\ \A h \in Referenced : gpu_images[h] # 0) =>
        /\ stage = "queue" => panicked = ""
        /\ SumLen(transparent_phase, Views) = Cardinality(views) * Cardinality(EligibleSet)
        /\ \A v \in Views \ views : transparent_phase[v] = <<>>
        /\ \A v \in views :
              /\ \A e \in EligibleSet :
                    Cardinality({i \in DOMAIN transparent_phase[v] :
                                    transparent_phase[v][i].entity = e}) = 1
              /\ \A i \in DOMAIN transparent_phase[v] :
                    /\ transparent_phase[v][i].entity \in EligibleSet
                    /\ transparent_phase[v][i].draw_function = "DrawTilemap"
                    /\ pipelines[transparent_phase[v][i].pipeline].key =
                          from_msaa_samples(ToU32(msaa), overflow_checks).val

\* A second frame under 4x MSAA with two views, in which one of the two
\* entities is gone: each view has one item, of the pipeline cached in frame 1.
C16_Witness ==
    /\ "queue_meshes" \in ran
    /\ stage = "queue"
    /\ frame = 2
    /\ msaa = 4
    /\ view_uniforms
    /\ views = {1, 2}
    /\ Cardinality(EligibleSet) = 1
    /\ Cardinality({e \in Entities : Extractable(world[e])}) = 1
    /\ Len(transparent_phase[1]) = 1
    /\ Len(transparent_phase[2]) = 1
    /\ Len(pipelines) = 1

\* C17: extract_tilemaps writes a bundle for exactly the entities that have
\* all four of transform, chunk, tilemap uniform data and mesh handle, and
\* does not fail on the others; the bundle holds the layer id and material of
\* the entity's chunk, its mesh handle, its tilemap uniform data and the
\* matrix of its own transform.
C17_ExtractsExactlyComplete ==
    stage # "extract" =>
        /\ panicked = ""
        /\ \A e \in Entities :
              IF /\ world[e].transform # Nothing
                 /\ world[e].chunk # Nothing
                 /\ world[e].tilemap_uniform # Nothing
                 /\ world[e].mesh # Nothing
              THEN /\ render_world[e].some
                   /\ render_world[e].v.layer_id = world[e].chunk.v.settings.layer_id
                   /\ render_world[e].v.image = world[e].chunk.v.material
                   /\ render_world[e].v.mesh = world[e].mesh.v
                   /\ render_world[e].v.tilemap_uniform = world[e].tilemap_uniform.v
                   /\ render_world[e].v.mesh_uniform.transform =
                         compute_matrix(world[e].transform.v)
              ELSE render_world[e] = Nothing

\* An entity with all four components, extracted, beside an entity lacking
\* only its mesh handle, left out.
C17_Witness ==
    /\ stage = "prepare"
    /\ render_world[1] = Some(ExtractedBundle(Complete(1, 65535, "imgB")))
    /\ world[2] = [Complete(2, 1, "imgA") EXCEPT !.mesh = Nothing]
    /\ ~render_world[2].some

\* The dynamic offsets DrawTilemap is to give at a slot, for a view and an entity.
SlotOffsets(slot, view, e) ==
    CASE slot = 0 -> <<ViewUniformOffset(view).offset>>
      [] slot = 1 -> <<DynamicUniformIndex("MeshUniform", e).index>>
      [] slot = 2 -> <<DynamicUniformIndex("TilemapUniformData", e).index>>
      [] slot = 3 -> <<>>

\* C18: the layouts of the pipeline of a drawn item are, for slots 0..3, the
\* view, mesh, uniform and material layout, and every bind group DrawTilemap
\* binds was created with the layout of the slot it is bound at, with the
\* dynamic offsets of that slot: the view's uniform offset, the entity's own
\* transform index, its own tilemap-uniform index, none.
C18_SlotsMatchLayouts ==
    (stage = "draw" /\ cursor > 0) =>
        LET layouts == pipelines[Drawn.pipeline].descriptor.layout IN
        /\ layouts = <<from_world.view_layout, from_world.mesh_layout,
                       from_world.uniform_layout, from_world.material_layout>>
        /\ \A i \in DOMAIN pass :
              pass[i].op = "set_bind_group" =>
                  /\ pass[i].bind_group.layout = layouts[pass[i].index + 1]
                  /\ pass[i].offsets =
                        SlotOffsets(pass[i].index, DrawOrder[cursor][1], Drawn.entity)

\* The second entity drawn in the second view: all four slots bound, the
\* offsets of slots 0 to 2 not zero.
C18_Witness ==
    /\ stage = "draw"
    /\ cursor > 0
    /\ DrawOrder[cursor][1] = 2
    /\ Drawn.entity = 2
    /\ Cardinality({i \in DOMAIN pass : pass[i].op = "set_bind_group"}) = 4
    /\ \A i \in 2 .. 4 : pass[i].offsets = <<256>>
    /\ pass[5].offsets = <<>>

\* C19: drawing an item, also when a command of it panics, leaves the
\* material cache, the transform, tilemap-uniform and view bind groups, the
\* phases and the pipeline cache as they were.
C19_DrawReadsOnly ==
    [][(stage = "draw" /\ stage' = "draw") =>
          /\ image_bind_groups' = image_bind_groups
          /\ transform_bind_group' = transform_bind_group
          /\ tilemap_bind_group' = tilemap_bind_group
          /\ view_bind_group' = view_bind_group
          /\ transparent_phase' = transparent_phase
          /\ pipelines' = pipelines]_vars

\* Two items drawn, the second ending in a panic, with all the resources there.
C19_Witness ==
    /\ stage = "draw"
    /\ cursor = 2
    /\ panicked # ""
    /\ Len(pass) >= 6
    /\ \A h \in Referenced : image_bind_groups[h].some
    /\ transform_bind_group.some
    /\ tilemap_bind_group.some
    /\ view_bind_group[1].some

\* The panics of the lookups of the material and the view bind group.
LookupPanics ==
    {"view_query.get(view).unwrap()",
     "image_bind_groups.values.get(image_handle).unwrap()"}

\* C20: while the app runs, every item in the phase of a view has an entry
\* of its entity's image handle in the material cache and that view has a
\* TilemapViewBindGroup; and no drawn item fails on either lookup.
C20_QueuedItemsResolve ==
    /\ panicked = "" =>
          \A v \in Views : \A i \in DOMAIN transparent_phase[v] :
              /\ render_world[transparent_phase[v][i].entity].some
              /\ image_bind_groups[
                    render_world[transparent_phase[v][i].entity].v.image].some
              /\ view_bind_group[v].some
    /\ panicked \notin LookupPanics

\* An item drawn in the second view whose material bind group was cached in
\* the frame before and whose GPU image is gone.
C20_Witness ==
    /\ stage = "draw"
    /\ frame = 2
    /\ cursor > 0
    /\ panicked = ""
    /\ DrawOrder[cursor][1] = 2
    /\ gpu_images[render_world[Drawn.entity].v.image] = 0
    /\ Len(pass) = 8

====
